---- MODULE Spec2Model ----
(***************************************************************************)
(* State-machine model of the vector collection with its HNSW index       *)
(* (src/src/func/collection.rs), followed by the locals of its build, the *)
(* key-value server (src/src/db/server.rs) and the tree index             *)
(* (src/src/ix/index.rs), each under a specification of its own.  The     *)
(* collection's fields are variables; every public operation is an        *)
(* operator from the collection                                            *)
(* and its arguments to the collection it leaves and the value it         *)
(* returns, and one action that applies it.  A panic of an operation is   *)
(* an outcome of its own ("panic"): the fields keep what the operation    *)
(* had written before the panicking statement, as a caller that survives  *)
(* the unwinding (the Python binding) observes them.                      *)
(*                                                                         *)
(* Vectors are sequences of small naturals.  The Euclidean kernel is      *)
(* kept squared (the square root is monotone, so every comparison of two  *)
(* distances is unchanged).                                                *)
(***************************************************************************)
EXTENDS Integers, Sequences, FiniteSets, TLC

VARIABLES config, relevancy, data, vectors, slots, base_layer, upper_layers,
          count, dimension

\* The other objects of the repository, each with a specification of its
\* own further down: the locals of build (its layer-sizing loop and its
\* construction loop), the key-value server with its two mutexes and the
\* calls in progress on it, and the tree index with a query on it.
VARIABLES sizing, construction, kvs, indices, locks, calls, ix

fields == <<config, relevancy, data, vectors, slots, base_layer, upper_layers,
            count, dimension>>

server == <<kvs, indices, locks, calls>>

vars == <<fields, sizing, construction, server, ix>>

(***************************************************************************)
(* Bounds and constants                                                    *)
(***************************************************************************)

\* u32::MAX, scaled down: the capacity limit of the slot table and INVALID.
U32Max == 3

\* Largest number of records handed to insert_many in one call.
MaxBatch == 2

\* Largest n handed to search / true_search.
MaxN == 2

\* update pushes a base node on every call: the number of base nodes beyond
\* the slot table that the model follows.
MaxExtra == 1

\* Neighbor arity of an upper node; a base node holds 2 * M.
M == 1

INVALID == U32Max

DefaultEfConstruction == 40

DefaultEfSearch == 15

UpperEf == 5

RelevancyUnset == -1

\* Vector components, vector lengths and metadata payloads used as inputs.
Components == {0, 1}

Lengths == {0, 1}

Payloads == {0}

RECURSIVE VectorsOfLen(_)
VectorsOfLen(n) ==
    IF n = 0 THEN {<<>>}
    ELSE {Append(v, x) : v \in VectorsOfLen(n - 1), x \in Components}

Vectors == UNION {VectorsOfLen(n) : n \in Lengths}

Records == [vector : Vectors, data : Payloads]

RelevancyValues == {RelevancyUnset, 1}

\* The layer multiplier as a fraction <<numerator, denominator>>: 0.5, which
\* gives a built collection of two or more records an upper layer.
MlValues == {<<1, 2>>}

DistanceNames == {"euclidean"}

VectorIDs == 0 .. (U32Max - 1)

(***************************************************************************)
(* Small helpers on sequences                                              *)
(***************************************************************************)

Min(a, b) == IF a < b THEN a ELSE b

Max(a, b) == IF a > b THEN a ELSE b

Take(s, n) == SubSeq(s, 1, Min(n, Len(s)))

RECURSIVE SumTo(_, _)
SumTo(f, n) == IF n = 0 THEN 0 ELSE f[n] + SumTo(f, n - 1)

\* All orderings of a finite set, as sequences.
Perms(S) ==
    {p \in [1 .. Cardinality(S) -> S] : \A i, j \in DOMAIN p : i # j => p[i] # p[j]}

(***************************************************************************)
(* Ids and errors                                                          *)
(***************************************************************************)

is_valid(id) == id # INVALID

Ok(v) == [kind |-> "ok", value |-> v]

Panic == [kind |-> "panic"]

collection_limit == [kind |-> "collection_limit"]

record_not_found == [kind |-> "record_not_found"]

invalid_dimension(found, expected) ==
    [kind |-> "invalid_dimension", found |-> found, expected |-> expected]

\* An error made from a bare message (`"...".into()`).
Message(text) == [kind |-> "message", text |-> text]

IsErr(r) == r.kind \notin {"ok", "panic"}

(***************************************************************************)
(* Distance kernels (src/src/func/distance.rs)                             *)
(***************************************************************************)

dot(a, b) == SumTo([i \in 1 .. Len(a) |-> a[i] * b[i]], Len(a))

\* Squared: the square root is left out.
euclidean(a, b) ==
    SumTo([i \in 1 .. Len(a) |-> (a[i] - b[i]) * (a[i] - b[i])], Len(a))

calculate(kernel, a, b) ==
    IF kernel = "dot" THEN dot(a, b) ELSE euclidean(a, b)

(***************************************************************************)
(* Graph nodes                                                             *)
(***************************************************************************)

BaseNodeDefault == [i \in 1 .. (2 * M) |-> INVALID]

UpperNodeDefault == [i \in 1 .. M |-> INVALID]

from_zero(node) == SubSeq(node, 1, M)

\* Index (1-based) of the first entry equal to id, 0 when there is none.
position_first(node, id) ==
    IF \E i \in DOMAIN node : node[i] = id
    THEN CHOOSE i \in DOMAIN node :
            node[i] = id /\ \A j \in DOMAIN node : node[j] = id => i <= j
    ELSE 0

\* The valid neighbors of a node: the prefix before the first INVALID.
RECURSIVE ValidPrefix(_)
ValidPrefix(node) ==
    IF node = <<>> \/ ~is_valid(Head(node)) THEN <<>>
    ELSE <<Head(node)>> \o ValidPrefix(Tail(node))

\* Insert id at 0-based position index, shifting the tail right by one and
\* dropping the last entry; a position past the end is skipped.
node_insert(node, index, id) ==
    IF index >= Len(node) THEN node
    ELSE [i \in DOMAIN node |->
            IF i < index + 1 THEN node[i]
            ELSE IF i = index + 1 THEN id
            ELSE IF is_valid(node[index + 1]) THEN node[i - 1]
            ELSE node[i]]

node_set(node, index, id) ==
    IF index >= Len(node) THEN node ELSE [node EXCEPT ![index + 1] = id]

(***************************************************************************)
(* Search engine: visited set, candidate heap, nearest list bounded by ef *)
(***************************************************************************)

\* Candidates are pairs <<distance, id>>, ordered by distance, then id.
CandidateLess(a, b) == a[1] < b[1] \/ (a[1] = b[1] /\ a[2] < b[2])

SearchDefault ==
    [ef |-> 1, visited |-> {}, candidates |-> {}, nearest |-> <<>>,
     panic |-> FALSE]

\* Visit id: compute its distance to the query and, when it ranks within
\* ef, record it as nearest and as a candidate to expand.  Looking up the
\* vector of an id that has none panics.
push(s, id, q, vecs, kernel) ==
    IF s.panic \/ id \in s.visited THEN s
    ELSE IF id \notin DOMAIN vecs THEN [s EXCEPT !.panic = TRUE]
    ELSE LET new == <<calculate(kernel, q, vecs[id]), id>>
             index == Cardinality({i \in DOMAIN s.nearest :
                                      CandidateLess(s.nearest[i], new)})
             seen == [s EXCEPT !.visited = @ \cup {id}]
         IN  IF index < s.ef
             THEN [seen EXCEPT
                     !.nearest = SubSeq(@, 1, index) \o <<new>>
                                 \o SubSeq(@, index + 1, Len(@)),
                     !.candidates = @ \cup {new}]
             ELSE seen

RECURSIVE push_all(_, _, _, _, _)
push_all(s, ids, q, vecs, kernel) ==
    IF ids = <<>> THEN s
    ELSE push_all(push(s, Head(ids), q, vecs, kernel), Tail(ids), q, vecs, kernel)

\* The neighbors of id on a layer; an id past the layer's end is out of range.
nearest_iter(layer, id) == ValidPrefix(layer[id + 1])

\* Bounded best-first search on one layer.
RECURSIVE search_layer(_, _, _, _, _, _)
search_layer(s, layer, q, vecs, kernel, links) ==
    IF s.panic \/ s.candidates = {} THEN s
    ELSE LET c == CHOOSE x \in s.candidates :
                     \A y \in s.candidates : x = y \/ CandidateLess(x, y)
             popped == [s EXCEPT !.candidates = @ \ {c}]
             full == Len(s.nearest) >= s.ef
         IN  IF full /\ c[1] > s.nearest[Len(s.nearest)][1] THEN popped
             ELSE IF c[2] >= Len(layer) THEN [popped EXCEPT !.panic = TRUE]
             ELSE LET pushed == push_all(popped, Take(nearest_iter(layer, c[2]), links),
                                         q, vecs, kernel)
                      cut == [pushed EXCEPT !.nearest = Take(@, s.ef)]
                  IN  search_layer(cut, layer, q, vecs, kernel, links)

\* Keep the single best result as the only entry point of the next layer.
cull(s) ==
    IF s.panic \/ s.nearest = <<>> THEN [s EXCEPT !.candidates = {}]
    ELSE [s EXCEPT !.nearest = <<s.nearest[1]>>, !.candidates = {s.nearest[1]}]

(***************************************************************************)
(* Index construction: insert one id into the graph                        *)
(***************************************************************************)

\* The first id that has a vector.
first_valid(vecs) == CHOOSE i \in DOMAIN vecs : \A j \in DOMAIN vecs : i <= j

\* Link the found candidates with id, in order: id enters each candidate's
\* list at its place by distance (the farthest entry falls off a full
\* list), and the candidate is written to position i of id's own list.
RECURSIVE link(_, _, _, _, _, _)
link(ic, id, found, i, vecs, kernel) ==
    IF ic.panic \/ i >= Len(found) THEN ic
    ELSE LET d == found[i + 1][1]
             c == found[i + 1][2]
         IN  IF c >= Len(ic.base_layer) THEN [ic EXCEPT !.panic = TRUE]
             ELSE LET node == ic.base_layer[c + 1]
                      nbrs == ValidPrefix(node)
                  IN  IF \E k \in DOMAIN nbrs : nbrs[k] \notin DOMAIN vecs
                      THEN [ic EXCEPT !.panic = TRUE]
                      ELSE LET index == Cardinality({k \in DOMAIN nbrs :
                                    calculate(kernel, vecs[c], vecs[nbrs[k]]) < d})
                               b1 == [ic.base_layer EXCEPT
                                         ![c + 1] = node_insert(node, index, id)]
                               b2 == [b1 EXCEPT ![id + 1] = node_set(@, i, c)]
                           IN  link([ic EXCEPT !.base_layer = b2],
                                    id, found, i + 1, vecs, kernel)

\* Descend from the top layer to the entry layer: upper layers above the
\* entry layer are searched on their snapshots and culled, then the working
\* base layer is searched with ef_construction.
RECURSIVE ic_descend(_, _, _, _, _, _, _, _)
ic_descend(s, cur, layer, layers, base, q, vecs, cfg) ==
    IF s.panic THEN s
    ELSE IF cur > layer
    THEN ic_descend(cull(search_layer([s EXCEPT !.ef = UpperEf], layers[cur],
                                      q, vecs, cfg.distance, M)),
                    cur - 1, layer, layers, base, q, vecs, cfg)
    ELSE search_layer([s EXCEPT !.ef = cfg.ef_construction], base,
                      q, vecs, cfg.distance, 2 * M)

\* IndexConstruction::insert: ic is [base_layer, panic]; the result is ic
\* with the links of id added, or with panic set.
ic_insert(ic, vecs, cfg, top_layer, id, layer, layers) ==
    IF ic.panic THEN ic
    ELSE IF id \notin DOMAIN vecs THEN [ic EXCEPT !.panic = TRUE]
    ELSE LET q == vecs[id]
             seeded == push(SearchDefault, first_valid(vecs), q, vecs, cfg.distance)
             s == ic_descend(seeded, top_layer, layer, layers, ic.base_layer,
                             q, vecs, cfg)
         IN  IF s.panic THEN [ic EXCEPT !.panic = TRUE]
             ELSE link(ic, id, Take(s.nearest, 2 * M), 0, vecs, cfg.distance)

RECURSIVE ic_insert_all(_, _, _, _, _, _, _)
ic_insert_all(ic, vecs, cfg, top_layer, ids, layer, layers) ==
    IF ids = <<>> THEN ic
    ELSE ic_insert_all(ic_insert(ic, vecs, cfg, top_layer, Head(ids), layer, layers),
                       vecs, cfg, top_layer, Tail(ids), layer, layers)

(***************************************************************************)
(* The collection (src/src/func/collection.rs).  self is the record of    *)
(* the collection's fields; each operation yields the fields after the    *)
(* call and the value it returns.                                          *)
(***************************************************************************)

self ==
    [config |-> config, relevancy |-> relevancy, data |-> data,
     vectors |-> vectors, slots |-> slots, base_layer |-> base_layer,
     upper_layers |-> upper_layers, count |-> count, dimension |-> dimension]

Out(c, r) == [self |-> c, res |-> r]

new(cfg) ==
    [config |-> cfg, relevancy |-> RelevancyUnset, data |-> <<>>,
     vectors |-> <<>>, slots |-> <<>>, base_layer |-> <<>>,
     upper_layers |-> <<>>, count |-> 0, dimension |-> 0]

\* Maps keyed by VectorID: insertion and removal of one key.
MapInsert(m, k, v) == [x \in (DOMAIN m) \cup {k} |-> IF x = k THEN v ELSE m[x]]

MapRemove(m, k) == [x \in (DOMAIN m) \ {k} |-> m[x]]

RECURSIVE MapInsertAll(_, _, _)
MapInsertAll(m, ks, vs) ==
    IF ks = <<>> THEN m
    ELSE MapInsertAll(MapInsert(m, Head(ks), Head(vs)), Tail(ks), Tail(vs))

contains(c, id) == id \in DOMAIN c.vectors

len(c) == c.count

is_empty(c) == c.count = 0

validate_dimension(c, vector) ==
    IF Len(vector) # c.dimension
    THEN invalid_dimension(Len(vector), c.dimension)
    ELSE Ok(<<>>)

\* insert_to_layers: one default base node is pushed per id, then every id
\* is inserted with the top layer as its entry layer; the rewired base
\* layer is stored only when every insertion has returned.
insert_to_layers(c, ids) ==
    LET pushed == c.base_layer \o [i \in 1 .. Len(ids) |-> BaseNodeDefault]
        top_layer == Len(c.upper_layers)
        ic == ic_insert_all([base_layer |-> pushed, panic |-> FALSE],
                            c.vectors, c.config, top_layer, ids, top_layer,
                            c.upper_layers)
    IN  IF ic.panic
        THEN [self |-> [c EXCEPT !.base_layer = pushed], panic |-> TRUE]
        ELSE [self |-> [c EXCEPT !.base_layer = ic.base_layer], panic |-> FALSE]

\* One layer of delete_from_layers: in the node of each id, the first entry
\* equal to that id becomes INVALID.  A node index past the layer's end
\* panics.
RECURSIVE delete_from_layer(_, _)
delete_from_layer(lp, ids) ==
    IF lp.panic \/ ids = <<>> THEN lp
    ELSE LET id == Head(ids)
         IN  IF id >= Len(lp.layer) THEN [lp EXCEPT !.panic = TRUE]
             ELSE LET node == lp.layer[id + 1]
                      index == position_first(node, id)
                      scrubbed == IF index = 0 THEN node
                                  ELSE [node EXCEPT ![index] = INVALID]
                  IN  delete_from_layer(
                          [lp EXCEPT !.layer = [@ EXCEPT ![id + 1] = scrubbed]],
                          Tail(ids))

\* The upper layers of delete_from_layers, from the top one down.
RECURSIVE delete_from_upper(_, _, _)
delete_from_upper(up, layer, ids) ==
    IF up.panic \/ layer = 0 THEN up
    ELSE LET lp == delete_from_layer([layer |-> up.layers[layer], panic |-> FALSE], ids)
         IN  delete_from_upper(
                 [layers |-> [up.layers EXCEPT ![layer] = lp.layer],
                  panic |-> lp.panic],
                 layer - 1, ids)

delete_from_layers(c, ids) ==
    LET base == delete_from_layer([layer |-> c.base_layer, panic |-> FALSE], ids)
        c1 == [c EXCEPT !.base_layer = base.layer]
    IN  IF base.panic THEN [self |-> c1, panic |-> TRUE]
        ELSE LET up == delete_from_upper([layers |-> c.upper_layers, panic |-> FALSE],
                                         Len(c.upper_layers), ids)
             IN  [self |-> [c1 EXCEPT !.upper_layers = up.layers],
                  panic |-> up.panic]

\* insert taking the next id from count instead of the length of the slot table.
insert_id_from_count(c, record) ==
    IF Len(c.slots) = U32Max THEN Out(c, collection_limit)
    ELSE LET first == (DOMAIN c.vectors = {}) /\ c.dimension = 0
         IN  IF ~first /\ Len(record.vector) # c.dimension
             THEN Out(c, invalid_dimension(Len(record.vector), c.dimension))
             ELSE LET id == c.count
                      c1 == [c EXCEPT
                               !.dimension = IF first THEN Len(record.vector) ELSE @,
                               !.vectors = MapInsert(@, id, record.vector),
                               !.data = MapInsert(@, id, record.data),
                               !.slots = Append(@, id),
                               !.count = @ + 1]
                      l == insert_to_layers(c1, <<id>>)
                  IN  IF l.panic THEN Out(l.self, Panic) ELSE Out(l.self, Ok(<<>>))

insert(c, record) ==
    IF Len(c.slots) = U32Max THEN Out(c, collection_limit)
    ELSE LET first == (DOMAIN c.vectors = {}) /\ c.dimension = 0
         IN  IF ~first /\ Len(record.vector) # c.dimension
             THEN Out(c, invalid_dimension(Len(record.vector), c.dimension))
             ELSE LET id == Len(c.slots)
                      c1 == [c EXCEPT
                               !.dimension = IF first THEN Len(record.vector) ELSE @,
                               !.vectors = MapInsert(@, id, record.vector),
                               !.data = MapInsert(@, id, record.data),
                               !.slots = Append(@, id),
                               !.count = @ + 1]
                      l == insert_to_layers(c1, <<id>>)
                  IN  IF l.panic THEN Out(l.self, Panic) ELSE Out(l.self, Ok(<<>>))

\* delete that forgets to decrement count.
delete_keeps_count(c, id) ==
    IF ~contains(c, id) THEN Out(c, record_not_found)
    ELSE LET l == delete_from_layers(c, <<id>>)
         IN  IF l.panic THEN Out(l.self, Panic)
             ELSE Out([l.self EXCEPT
                         !.vectors = MapRemove(@, id),
                         !.data = MapRemove(@, id),
                         !.slots = [@ EXCEPT ![id + 1] = INVALID]],
                      Ok(<<>>))

\* delete that drops the slot of the last id instead of tombstoning it.
delete_shrinks_slots(c, id) ==
    IF ~contains(c, id) THEN Out(c, record_not_found)
    ELSE LET l == delete_from_layers(c, <<id>>)
         IN  IF l.panic THEN Out(l.self, Panic)
             ELSE Out([l.self EXCEPT
                         !.vectors = MapRemove(@, id),
                         !.data = MapRemove(@, id),
                         !.slots = IF id + 1 = Len(@) THEN SubSeq(@, 1, id)
                                   ELSE [@ EXCEPT ![id + 1] = INVALID],
                         !.count = @ - 1],
                      Ok(<<>>))

delete(c, id) ==
    IF ~contains(c, id) THEN Out(c, record_not_found)
    ELSE LET l == delete_from_layers(c, <<id>>)
         IN  IF l.panic THEN Out(l.self, Panic)
             ELSE Out([l.self EXCEPT
                         !.vectors = MapRemove(@, id),
                         !.data = MapRemove(@, id),
                         !.slots = [@ EXCEPT ![id + 1] = INVALID],
                         !.count = @ - 1],
                      Ok(<<>>))

\* update that replaces the vector and leaves the old metadata.
update_keeps_data(c, id, record) ==
    IF ~contains(c, id) THEN Out(c, record_not_found)
    ELSE LET v == validate_dimension(c, record.vector)
         IN  IF v.kind # "ok" THEN Out(c, v)
             ELSE LET d == delete_from_layers(c, <<id>>)
                  IN  IF d.panic THEN Out(d.self, Panic)
                      ELSE LET c1 == [d.self EXCEPT
                                        !.vectors = MapInsert(@, id, record.vector)]
                               l == insert_to_layers(c1, <<id>>)
                           IN  IF l.panic THEN Out(l.self, Panic)
                               ELSE Out(l.self, Ok(<<>>))

update(c, id, record) ==
    IF ~contains(c, id) THEN Out(c, record_not_found)
    ELSE LET v == validate_dimension(c, record.vector)
         IN  IF v.kind # "ok" THEN Out(c, v)
             ELSE LET d == delete_from_layers(c, <<id>>)
                  IN  IF d.panic THEN Out(d.self, Panic)
                      ELSE LET c1 == [d.self EXCEPT
                                        !.vectors = MapInsert(@, id, record.vector),
                                        !.data = MapInsert(@, id, record.data)]
                               l == insert_to_layers(c1, <<id>>)
                           IN  IF l.panic THEN Out(l.self, Panic)
                               ELSE Out(l.self, Ok(<<>>))

\* insert_many numbering the new ids from count instead of the length of
\* the slot table.
insert_many_ids_from_count(c, records) ==
    IF Len(c.slots) + Len(records) >= U32Max THEN Out(c, collection_limit)
    ELSE LET first == (DOMAIN c.vectors = {}) /\ c.dimension = 0
         IN  IF first /\ records = <<>> THEN Out(c, Panic)
             ELSE LET c0 == [c EXCEPT
                               !.dimension = IF first THEN Len(records[1].vector) ELSE @]
                  IN  IF \E i \in DOMAIN records : Len(records[i].vector) # c0.dimension
                      THEN Out(c0, Message("The vector dimension is inconsistent."))
                      ELSE LET ids == [i \in 1 .. Len(records) |-> c.count + i - 1]
                               c1 == [c0 EXCEPT
                                        !.vectors = MapInsertAll(@, ids,
                                            [i \in DOMAIN records |-> records[i].vector]),
                                        !.data = MapInsertAll(@, ids,
                                            [i \in DOMAIN records |-> records[i].data]),
                                        !.slots = @ \o ids,
                                        !.count = @ + Len(records)]
                               l == insert_to_layers(c1, ids)
                           IN  IF l.panic THEN Out(l.self, Panic)
                               ELSE Out(l.self, Ok(ids))

insert_many(c, records) ==
    IF Len(c.slots) + Len(records) >= U32Max THEN Out(c, collection_limit)
    ELSE LET first == (DOMAIN c.vectors = {}) /\ c.dimension = 0
         IN  IF first /\ records = <<>> THEN Out(c, Panic)
             ELSE LET c0 == [c EXCEPT
                               !.dimension = IF first THEN Len(records[1].vector) ELSE @]
                  IN  IF \E i \in DOMAIN records : Len(records[i].vector) # c0.dimension
                      THEN Out(c0, Message("The vector dimension is inconsistent."))
                      ELSE LET ids == [i \in 1 .. Len(records) |-> Len(c.slots) + i - 1]
                               c1 == [c0 EXCEPT
                                        !.vectors = MapInsertAll(@, ids,
                                            [i \in DOMAIN records |-> records[i].vector]),
                                        !.data = MapInsertAll(@, ids,
                                            [i \in DOMAIN records |-> records[i].data]),
                                        !.slots = @ \o ids,
                                        !.count = @ + Len(records)]
                               l == insert_to_layers(c1, ids)
                           IN  IF l.panic THEN Out(l.self, Panic)
                               ELSE Out(l.self, Ok(ids))

\* set_dimension without the emptiness check.
set_dimension_unguarded(c, d) == Out([c EXCEPT !.dimension = d], Ok(<<>>))

set_dimension(c, d) ==
    IF DOMAIN c.vectors # {} THEN Out(c, Message("The collection must be empty."))
    ELSE Out([c EXCEPT !.dimension = d], Ok(<<>>))

set_relevancy(c, r) == Out([c EXCEPT !.relevancy = r], Ok(<<>>))

\* truncate_irrelevant_result comparing as for the Euclidean kernel
\* whatever the kernel is.
truncate_ignores_kernel(c, res) ==
    LET below(r) == c.relevancy >= 0 /\ r.distance <= c.relevancy * c.relevancy
    IN  IF c.relevancy = RelevancyUnset THEN res ELSE SelectSeq(res, below)

\* truncate_irrelevant_result keeping the results exactly at the threshold.
truncate_exact_match(c, res) ==
    LET at(r) == IF c.config.distance = "euclidean"
                 THEN c.relevancy >= 0 /\ r.distance = c.relevancy * c.relevancy
                 ELSE r.distance = c.relevancy
    IN  IF c.relevancy = RelevancyUnset THEN res ELSE SelectSeq(res, at)

\* truncate_irrelevant_result: results are [id, distance, data].  The
\* Euclidean distance is kept squared, so distance <= relevancy is compared
\* on the squares (no distance is below a negative threshold).
truncate_irrelevant_result(c, res) ==
    LET below(r) == c.relevancy >= 0 /\ r.distance <= c.relevancy * c.relevancy
        above(r) == r.distance >= c.relevancy
    IN  IF c.relevancy = RelevancyUnset THEN res
        ELSE IF c.config.distance = "euclidean" THEN SelectSeq(res, below)
        ELSE SelectSeq(res, above)

\* The first valid id of the slot table, INVALID when there is none.
find_first_valid(sl) ==
    IF \E i \in DOMAIN sl : is_valid(sl[i])
    THEN sl[CHOOSE i \in DOMAIN sl :
               is_valid(sl[i]) /\ \A j \in DOMAIN sl : is_valid(sl[j]) => i <= j]
    ELSE INVALID

\* The layer loop of search: from the top upper layer down to the base.
RECURSIVE search_descend(_, _, _, _)
search_descend(s, layer, c, q) ==
    IF s.panic THEN s
    ELSE IF layer = 0
    THEN search_layer([s EXCEPT !.ef = c.config.ef_search], c.base_layer,
                      q, c.vectors, c.config.distance, 2 * M)
    ELSE search_descend(
             cull(search_layer([s EXCEPT !.ef = UpperEf], c.upper_layers[layer],
                               q, c.vectors, c.config.distance, M)),
             layer - 1, c, q)

search_validates_first(c, q, n) ==
    LET v == validate_dimension(c, q)
    IN  IF v.kind # "ok" THEN Out(c, v) ELSE Out(c, Ok(<<>>))

search(c, q, n) ==
    IF DOMAIN c.vectors = {} THEN Out(c, Ok(<<>>))
    ELSE LET v == validate_dimension(c, q)
             seed == find_first_valid(c.slots)
         IN  IF v.kind # "ok" THEN Out(c, v)
             ELSE IF ~is_valid(seed) THEN Out(c, Message("Unable to initiate search."))
             ELSE LET s == search_descend(
                               push(SearchDefault, seed, q, c.vectors, c.config.distance),
                               Len(c.upper_layers), c, q)
                  IN  IF s.panic \/ \E i \in DOMAIN s.nearest :
                                       s.nearest[i][2] \notin DOMAIN c.data
                      THEN Out(c, Panic)
                      ELSE LET res == [i \in DOMAIN s.nearest |->
                                         [id |-> s.nearest[i][2],
                                          distance |-> s.nearest[i][1],
                                          data |-> c.data[s.nearest[i][2]]]]
                           IN  Out(c, Ok(Take(truncate_irrelevant_result(c, res), n)))

\* The stable sort of true_search orders the records by distance; records
\* at equal distance keep the iteration order of the vectors map, which is
\* arbitrary: every ordering by non-decreasing distance is a possible outcome.
sort_outcomes(c, q) ==
    {p \in Perms(DOMAIN c.vectors) :
        \A i, j \in DOMAIN p : i < j =>
            calculate(c.config.distance, q, c.vectors[p[i]])
                <= calculate(c.config.distance, q, c.vectors[p[j]])}

\* true_search, with sorted the outcome of its sort.
true_search(c, q, n, sorted) ==
    LET v == validate_dimension(c, q)
    IN  IF v.kind # "ok" THEN Out(c, v)
        ELSE LET nearest == [i \in DOMAIN sorted |->
                               [id |-> sorted[i],
                                distance |-> calculate(c.config.distance, q,
                                                       c.vectors[sorted[i]]),
                                data |-> c.data[sorted[i]]]]
             IN  Out(c, Ok(Take(truncate_irrelevant_result(c, nearest), n)))

get(c, id) ==
    IF ~contains(c, id) THEN record_not_found
    ELSE Ok([vector |-> c.vectors[id], data |-> c.data[id]])

\* list that leaves out the record of the lowest live id.
list_skips_first(c) ==
    LET ids == {id \in DOMAIN c.vectors : \E lower \in DOMAIN c.vectors : lower < id}
    IN  Ok([id \in ids |-> [vector |-> c.vectors[id], data |-> c.data[id]]])

list(c) ==
    Ok([id \in DOMAIN c.vectors |-> [vector |-> c.vectors[id], data |-> c.data[id]]])

(***************************************************************************)
(* build                                                                   *)
(***************************************************************************)

\* The layer-sizing loop: pairs <<size, cumulative>> from the base layer up,
\* then the remaining length as the top layer.  ml is <<num, den>>.
RECURSIVE build_layers(_, _, _)
build_layers(length, ml, layers) ==
    LET next == (length * ml[1]) \div ml[2]
    IN  IF next < M THEN Append(layers, <<length, length>>)
        ELSE build_layers(next, ml, Append(layers, <<length - next, length>>))

Reverse(s) == [i \in DOMAIN s |-> s[Len(s) + 1 - i]]

\* The ranges without the floor of 1 on their start.
build_ranges_from_zero(layers) ==
    [i \in DOMAIN layers |->
        [layer |-> Len(layers) - i,
         start |-> layers[i][2] - layers[i][1],
         end |-> layers[i][2]]]

\* Per layer, top first: [layer, start, end], the ids start .. end - 1.
build_ranges(layers) ==
    [i \in DOMAIN layers |->
        [layer |-> Len(layers) - i,
         start |-> Max(layers[i][2] - layers[i][1], 1),
         end |-> layers[i][2]]]

\* The ids of a range in the order the parallel loop happens to run them:
\* prio ranks the ids, lower rank first.
RangeOrder(range, prio) ==
    LET ids == {i \in range.start .. (range.end - 1) : TRUE}
    IN  IF ids = {} THEN <<>>
        ELSE CHOOSE p \in Perms(ids) :
                \A i, j \in DOMAIN p : i < j => prio[p[i]] < prio[p[j]]

\* The loop over the layer ranges: insert the ids of the range, then copy
\* the first `end` base nodes into the upper layer just finished.
RECURSIVE build_loop(_, _, _, _, _, _, _)
build_loop(ic, upper, ranges, vecs, cfg, top_layer, prio) ==
    IF ranges = <<>> THEN [ic |-> ic, upper |-> upper]
    ELSE LET r == Head(ranges)
             done == ic_insert_all(ic, vecs, cfg, top_layer, RangeOrder(r, prio),
                                   r.layer, upper)
             snapshot == [i \in 1 .. r.end |-> from_zero(done.base_layer[i])]
             upper1 == IF r.layer # 0 /\ ~done.panic
                       THEN [upper EXCEPT ![r.layer] = snapshot]
                       ELSE upper
         IN  build_loop(done, upper1, Tail(ranges), vecs, cfg, top_layer, prio)

build(cfg, records, prio) ==
    IF records = <<>> THEN Out(new(cfg), Ok(<<>>))
    ELSE IF Len(records) >= U32Max
    THEN Out(new(cfg), Message("The collection record limit is reached."))
    ELSE IF \E i \in DOMAIN records : Len(records[i].vector) # Len(records[1].vector)
    THEN Out(new(cfg), Message("The vector dimension is inconsistent."))
    ELSE LET layers == Reverse(build_layers(Len(records), cfg.ml, <<>>))
             top_layer == Len(layers) - 1
             vecs == [id \in 0 .. (Len(records) - 1) |-> records[id + 1].vector]
             ranges == build_ranges(layers)
             base == [i \in 1 .. Len(records) |-> BaseNodeDefault]
             built == build_loop([base_layer |-> base, panic |-> FALSE],
                                 [l \in 1 .. top_layer |-> <<>>],
                                 ranges, vecs, cfg, top_layer, prio)
         IN  IF built.ic.panic THEN Out(new(cfg), Panic)
             ELSE Out([config |-> cfg, relevancy |-> RelevancyUnset,
                       data |-> [id \in 0 .. (Len(records) - 1) |-> records[id + 1].data],
                       vectors |-> vecs,
                       slots |-> [i \in 1 .. Len(records) |-> i - 1],
                       base_layer |-> built.ic.base_layer,
                       upper_layers |-> built.upper,
                       count |-> Len(records), dimension |-> Len(records[1].vector)],
                      Ok(<<>>))

(***************************************************************************)
(* The state machine                                                       *)
(***************************************************************************)

Configs ==
    [ef_construction : {DefaultEfConstruction}, ef_search : {DefaultEfSearch},
     ml : MlValues, distance : DistanceNames]

\* Sequences of records of length 0 .. n.
RecordSeqs(n) == UNION {[1 .. k -> Records] : k \in 0 .. n}

\* An object that the specification at hand does not run.
NotStarted == "not started"

\* The fields after a call: those of the collection the operation leaves.
Assign(c) ==
    /\ config' = c.config
    /\ relevancy' = c.relevancy
    /\ data' = c.data
    /\ vectors' = c.vectors
    /\ slots' = c.slots
    /\ base_layer' = c.base_layer
    /\ upper_layers' = c.upper_layers
    /\ count' = c.count
    /\ dimension' = c.dimension
    /\ UNCHANGED <<sizing, construction, server, ix>>

\* The fields of new(config).
Init ==
    /\ config \in Configs
    /\ relevancy = RelevancyUnset
    /\ data = <<>>
    /\ vectors = <<>>
    /\ slots = <<>>
    /\ base_layer = <<>>
    /\ upper_layers = <<>>
    /\ count = 0
    /\ dimension = 0
    /\ sizing = NotStarted
    /\ construction = NotStarted
    /\ kvs = NotStarted
    /\ indices = NotStarted
    /\ locks = NotStarted
    /\ calls = NotStarted
    /\ ix = NotStarted

\* build is a constructor: it runs in place of new, on the fresh object.
\* A failed build yields no collection; the fresh one stays.
Build ==
    /\ self = new(config)
    /\ \E records \in RecordSeqs(U32Max) :
       \E prio \in Perms(1 .. Max(Len(records) - 1, 0)) :
           Assign(build(config, records, prio).self)

Insert == \E record \in Records : Assign(insert(self, record).self)

InsertMany ==
    \E records \in RecordSeqs(MaxBatch) : Assign(insert_many(self, records).self)

Delete == \E id \in VectorIDs : Assign(delete(self, id).self)

Update ==
    /\ Len(base_layer) - Len(slots) < MaxExtra
    /\ \E id \in VectorIDs, record \in Records :
           Assign(update(self, id, record).self)

\* search and true_search take &self: the fields stay as they are.
Search == \E q \in Vectors, n \in 0 .. MaxN : Assign(search(self, q, n).self)

TrueSearch ==
    \E q \in Vectors, n \in 0 .. MaxN :
        IF Len(q) # dimension
        THEN Assign(true_search(self, q, n, <<>>).self)
        ELSE \E sorted \in sort_outcomes(self, q) :
                Assign(true_search(self, q, n, sorted).self)

SetDimension == \E d \in Lengths : Assign(set_dimension(self, d).self)

SetRelevancy == \E r \in RelevancyValues : Assign(set_relevancy(self, r).self)

Next ==
    \/ Build
    \/ Insert
    \/ InsertMany
    \/ Delete
    \/ Update
    \/ Search
    \/ TrueSearch
    \/ SetDimension
    \/ SetRelevancy

Spec == Init /\ [][Next]_vars

(***************************************************************************)
(* Properties                                                              *)
(***************************************************************************)

LiveSlots == {i \in DOMAIN slots : slots[i] # INVALID}

\* A node of the base layer or of an upper layer lists id.
GraphMentions(base, upper, id) ==
    \/ \E n \in DOMAIN base : \E k \in DOMAIN base[n] : base[n][k] = id
    \/ \E l \in DOMAIN upper : \E n \in DOMAIN upper[l] :
           \E k \in DOMAIN upper[l][n] : upper[l][n][k] = id

\* Queries of the collection's dimension.
SizedQueries == {q \in Vectors : Len(q) = dimension}

\* Vectors and records of any other length.
WrongVectors == {q \in Vectors : Len(q) # dimension}

WrongRecords == {r \in Records : Len(r.vector) # dimension}

\* C1: once delete(id) has returned Ok, no node of the base layer or of an
\* upper layer lists id.
C1_DeleteLeavesNoGhost ==
    \A id \in VectorIDs :
        LET d == delete(self, id)
        IN  d.res.kind = "ok" =>
                ~GraphMentions(d.self.base_layer, d.self.upper_layers, id)

\* C2: with at least one live record, every search with a query of the
\* collection's dimension returns Ok, and every id it returns is live.
C2_SearchReturnsLiveIds ==
    (DOMAIN vectors # {}) =>
        \A q \in SizedQueries, n \in 0 .. MaxN :
            LET r == search(self, q, n).res
            IN  /\ r.kind = "ok"
                /\ \A i \in DOMAIN r.value : contains(self, r.value[i].id)

\* C3: count is the number of vectors, of metadata entries and of slots
\* that are not INVALID; len() is that number and is_empty() holds exactly
\* when it is 0.
C3_CountAgrees ==
    /\ count = Cardinality(DOMAIN vectors)
    /\ count = Cardinality(DOMAIN data)
    /\ count = Cardinality(LiveSlots)
    /\ len(self) = Cardinality(LiveSlots)
    /\ is_empty(self) <=> (Cardinality(LiveSlots) = 0)

\* A delete has left a tombstone beside a live record, and an update has
\* rewired a record since (the base layer has grown past the slot table).
C3_Witness ==
    /\ count > 0
    /\ Len(slots) > count
    /\ Len(base_layer) > Len(slots)

\* C4: every slot i holds INVALID or the id i, and contains(i) holds exactly
\* when slot i holds i.
C4_SlotConsistency ==
    \A i \in DOMAIN slots :
        /\ slots[i] \in {INVALID, i - 1}
        /\ contains(self, i - 1) <=> (slots[i] = i - 1)

\* The table is full, with a tombstone below a record that is live: the
\* count and the next id have parted.
C4_Witness ==
    /\ Len(slots) = U32Max - 1
    /\ \E i, j \in DOMAIN slots : i < j /\ slots[i] = INVALID /\ slots[j] = j - 1

\* C5: for every live id, delete returns Ok, tombstones the slot and takes
\* exactly 1 from count, and update with a record of the collection's
\* dimension returns Ok; neither panics on an out-of-range node.
C5_DeleteUpdateSucceed ==
    \A id \in DOMAIN vectors :
        /\ LET d == delete(self, id)
           IN  /\ d.res.kind = "ok"
               /\ d.self.slots[id + 1] = INVALID
               /\ d.self.count = count - 1
        /\ \A r \in Records :
              Len(r.vector) = dimension => update(self, id, r).res.kind = "ok"

\* C6: the base layer has as many nodes as the slot table has entries.
C6_BaseLayerLength == Len(base_layer) = Len(slots)

\* C7: every populated upper layer has as many nodes as the slot table has
\* entries.
C7_UpperLayerLength ==
    \A l \in DOMAIN upper_layers :
        upper_layers[l] # <<>> => Len(upper_layers[l]) = Len(slots)

\* C8: a mutating operation (insert, insert_many, update, delete,
\* set_dimension) that returns an error leaves every field of the
\* collection as it was.
C8_ErrorLeavesUnchanged ==
    /\ \A r \in Records :
          LET out == insert(self, r) IN IsErr(out.res) => out.self = self
    /\ \A rs \in RecordSeqs(MaxBatch) :
          LET out == insert_many(self, rs) IN IsErr(out.res) => out.self = self
    /\ \A id \in VectorIDs, r \in Records :
          LET out == update(self, id, r) IN IsErr(out.res) => out.self = self
    /\ \A id \in VectorIDs :
          LET out == delete(self, id) IN IsErr(out.res) => out.self = self
    /\ \A d \in Lengths :
          LET out == set_dimension(self, d) IN IsErr(out.res) => out.self = self

\* C9 as stated: once a record has been admitted (the slot table is not
\* empty), no call changes the dimension.
C9_DimensionNeverChanges ==
    [][Len(slots) > 0 => dimension' = dimension]_vars

\* C9 amended: once a record has been admitted, no call made while a record
\* is live changes the dimension.
C9_DimensionFixedWhileLive ==
    [][(Len(slots) > 0 /\ DOMAIN vectors # {}) => dimension' = dimension]_vars

\* A record is live beside a tombstone, and set_dimension refuses every
\* other dimension.
C9_Witness ==
    /\ DOMAIN vectors # {}
    /\ \E i \in DOMAIN slots : slots[i] = INVALID
    /\ \A d \in Lengths \ {dimension} :
          set_dimension(self, d) = Out(self, Message("The collection must be empty."))

\* C10: with the dimension established, insert, insert_many, update on a
\* live id, search and true_search given a vector of another length each
\* return invalid_dimension(found, expected) and leave the collection as
\* it was.  (insert and insert_many are asked only below the capacity
\* limit, which they check first.)
C10_WrongLengthRejected ==
    dimension # 0 =>
        /\ \A r \in WrongRecords :
              LET e == invalid_dimension(Len(r.vector), dimension)
              IN  /\ Len(slots) < U32Max =>
                        insert(self, r) = Out(self, e)
                  /\ Len(slots) + 1 < U32Max =>
                        insert_many(self, <<r>>) = Out(self, e)
                  /\ \A id \in DOMAIN vectors : update(self, id, r) = Out(self, e)
        /\ \A q \in WrongVectors, n \in 0 .. MaxN :
              LET e == invalid_dimension(Len(q), dimension)
              IN  /\ search(self, q, n) = Out(self, e)
                  /\ true_search(self, q, n, <<>>) = Out(self, e)

\* C11: the slot table never reaches U32Max entries: a collection whose
\* slot table holds U32Max - 1 entries (or more) answers every insert with
\* collection_limit and stays as it was.
C11_InsertRejectedAtLimit ==
    /\ Len(slots) < U32Max
    /\ Len(slots) >= U32Max - 1 =>
          \A r \in Records : insert(self, r) = Out(self, collection_limit)

\* The ids lo .. lo + n - 1 in ascending order.
ConsecutiveIds(lo, n) == [i \in 1 .. n |-> lo + i - 1]

\* C12: a successful insert stores its record under the id slots.len() of
\* before the call; a successful insert_many of N records returns, in the
\* order of the records, the ids slots.len() .. slots.len() + N - 1 of
\* before the call and stores record i under the i-th of them; every id
\* assigned so far is below slots.len(), so a new id is above all of them,
\* tombstoned or not.
C12_IdsFromSlotLength ==
    /\ \A id \in (DOMAIN vectors) \cup (DOMAIN data) : id < Len(slots)
    /\ \A i \in DOMAIN slots : is_valid(slots[i]) => slots[i] < Len(slots)
    /\ \A r \in Records :
          LET out == insert(self, r)
          IN  out.res.kind = "ok" =>
                 /\ out.self.slots = Append(slots, Len(slots))
                 /\ DOMAIN out.self.vectors = (DOMAIN vectors) \cup {Len(slots)}
                 /\ out.self.vectors[Len(slots)] = r.vector
                 /\ out.self.data[Len(slots)] = r.data
    /\ \A rs \in RecordSeqs(MaxBatch) :
          LET out == insert_many(self, rs)
              ids == ConsecutiveIds(Len(slots), Len(rs))
          IN  out.res.kind = "ok" =>
                 /\ out.res.value = ids
                 /\ out.self.slots = slots \o ids
                 /\ \A i \in DOMAIN rs :
                       /\ out.self.vectors[ids[i]] = rs[i].vector
                       /\ out.self.data[ids[i]] = rs[i].data

\* The only record so far has been deleted, and insert and insert_many each
\* admit a record under id 1 while count is 0.
C12_Witness ==
    /\ slots = <<INVALID>>
    /\ count = 0
    /\ \E r \in Records :
          /\ insert(self, r).res.kind = "ok"
          /\ insert_many(self, <<r>>).res = Ok(<<1>>)

\* C13: the slot table never gets shorter, and a tombstone stays: once slot
\* i holds INVALID it holds INVALID after every later call, and in every
\* state with that tombstone contains(i) is false and get(i), update(i, r)
\* and delete(i) return record_not_found and change nothing.
C13_TombstonesPermanent ==
    [][/\ Len(slots') >= Len(slots)
       /\ \A i \in DOMAIN slots :
             slots[i] = INVALID => (i \in DOMAIN slots' /\ slots'[i] = INVALID)
       /\ \A i \in DOMAIN slots' :
             slots'[i] = INVALID =>
                /\ ~contains(self', i - 1)
                /\ get(self', i - 1) = record_not_found
                /\ delete(self', i - 1) = Out(self', record_not_found)
                /\ \A r \in Records :
                      update(self', i - 1, r) = Out(self', record_not_found)]_vars

\* Id 0 was deleted and two records were admitted after it: the table is
\* full, slot 0 is still the tombstone and delete(0) finds no record.
C13_Witness ==
    /\ Len(slots) = U32Max
    /\ slots[1] = INVALID
    /\ count = U32Max - 1
    /\ delete(self, 0) = Out(self, record_not_found)

\* Records offered to a single call: those of the state machine and the
\* same vectors with a metadata payload that no stored record carries.
NewPayloads == Payloads \cup {1}

NewRecords == [vector : Vectors, data : NewPayloads]

\* C14: when update(id, record) returns Ok, get(id) returns the vector and
\* the metadata of record, and count, slots, dimension, relevancy and the
\* vector and metadata of every other id are as before.
C14_UpdateFrame ==
    \A id \in VectorIDs, r \in NewRecords :
        LET out == update(self, id, r)
        IN  out.res.kind = "ok" =>
               /\ get(out.self, id) = Ok([vector |-> r.vector, data |-> r.data])
               /\ out.self.count = count
               /\ out.self.slots = slots
               /\ out.self.dimension = dimension
               /\ out.self.relevancy = relevancy
               /\ DOMAIN out.self.vectors = DOMAIN vectors
               /\ DOMAIN out.self.data = DOMAIN data
               /\ \A other \in (DOMAIN vectors) \ {id} :
                     /\ out.self.vectors[other] = vectors[other]
                     /\ out.self.data[other] = data[other]

\* Two records are live, an update has rewired one of them, and a further
\* update that changes both the vector and the metadata of an id returns Ok.
C14_Witness ==
    /\ count >= 2
    /\ Len(base_layer) > Len(slots)
    /\ \E id \in DOMAIN vectors, r \in NewRecords :
          /\ r.vector # vectors[id]
          /\ r.data # data[id]
          /\ update(self, id, r).res.kind = "ok"

\* The ids whose slot is not a tombstone.
LiveIds == {i - 1 : i \in LiveSlots}

\* The map that list() returns in the current state.
Listed == list(self).value

\* C15: list() returns Ok with a map whose keys are exactly the live ids;
\* get(id) returns the listed record for a live id and record_not_found
\* for any other id; and the listed records are the ones written last:
\* build lists record i under id i, a successful insert or insert_many adds
\* its records under the new ids, a successful update replaces the record
\* of its id, a successful delete removes the entry of its id, and each of
\* them leaves every other entry as it was.
C15_ListAndGet ==
    /\ list(self).kind = "ok"
    /\ DOMAIN Listed = LiveIds
    /\ \A id \in VectorIDs \cup {INVALID} :
          get(self, id) = IF id \in LiveIds THEN Ok(Listed[id]) ELSE record_not_found
    /\ self = new(config) =>
          \A rs \in RecordSeqs(U32Max) : \A prio \in Perms(1 .. Max(Len(rs) - 1, 0)) :
              LET out == build(config, rs, prio)
              IN  out.res.kind = "ok" =>
                     list(out.self).value = [id \in 0 .. (Len(rs) - 1) |-> rs[id + 1]]
    /\ \A r \in NewRecords :
          LET out == insert(self, r)
          IN  out.res.kind = "ok" =>
                 list(out.self).value = MapInsert(Listed, Len(slots), r)
    /\ \A rs \in RecordSeqs(MaxBatch) :
          LET out == insert_many(self, rs)
          IN  out.res.kind = "ok" =>
                 list(out.self).value =
                     MapInsertAll(Listed, ConsecutiveIds(Len(slots), Len(rs)), rs)
    /\ \A id \in VectorIDs, r \in NewRecords :
          LET out == update(self, id, r)
          IN  out.res.kind = "ok" => list(out.self).value = MapInsert(Listed, id, r)
    /\ \A id \in VectorIDs :
          LET out == delete(self, id)
          IN  out.res.kind = "ok" => list(out.self).value = MapRemove(Listed, id)

\* Two records with different vectors are listed beside a tombstone, and
\* get of the tombstoned id finds no record.
C15_Witness ==
    /\ \E a, b \in DOMAIN Listed : Listed[a].vector # Listed[b].vector
    /\ \E i \in DOMAIN slots :
          slots[i] = INVALID /\ get(self, i - 1) = record_not_found

(***************************************************************************)
(* The collection under each kernel                                        *)
(*                                                                         *)
(* The same operations on a collection configured with either kernel of    *)
(* the model: Euclidean (lower is nearer) or dot product (higher is        *)
(* nearer).  The cosine kernel divides and takes a square root and is not  *)
(* represented.  Records are admitted by build, insert and insert_many     *)
(* and removed by delete; update, which Spec follows for the Euclidean     *)
(* kernel, is not among the actions here.                                  *)
(***************************************************************************)

KernelNames == {"euclidean", "dot"}

KernelConfigs ==
    [ef_construction : {DefaultEfConstruction}, ef_search : {DefaultEfSearch},
     ml : MlValues, distance : KernelNames]

\* The fields of new(config), for a config of either kernel.
InitKernels ==
    /\ config \in KernelConfigs
    /\ relevancy = RelevancyUnset
    /\ data = <<>>
    /\ vectors = <<>>
    /\ slots = <<>>
    /\ base_layer = <<>>
    /\ upper_layers = <<>>
    /\ count = 0
    /\ dimension = 0
    /\ sizing = NotStarted
    /\ construction = NotStarted
    /\ kvs = NotStarted
    /\ indices = NotStarted
    /\ locks = NotStarted
    /\ calls = NotStarted
    /\ ix = NotStarted

NextKernels ==
    \/ Build
    \/ Insert
    \/ InsertMany
    \/ Delete
    \/ Search
    \/ TrueSearch
    \/ SetDimension
    \/ SetRelevancy

SpecKernels == InitKernels /\ [][NextKernels]_vars

\* d1 is at least as near as d2 under the kernel: not farther for the
\* Euclidean distance, not less similar for the dot product.
AtLeastAsNear(kernel, d1, d2) ==
    IF kernel = "euclidean" THEN d1 <= d2 ELSE d1 >= d2

\* C16: true_search with a query of the collection's dimension returns Ok
\* with its results best first under the kernel's comparator (ascending
\* Euclidean distance, descending dot product); with the relevancy filter
\* disabled it returns min(n, count) records, and no record left out is
\* nearer than a record returned.
C16_TrueSearchBestFirst ==
    \A q \in SizedQueries, n \in 0 .. MaxN :
        \A sorted \in sort_outcomes(self, q) :
            LET out == true_search(self, q, n, sorted)
                r == out.res.value
                returned == {r[i].id : i \in DOMAIN r}
            IN  /\ out.res.kind = "ok"
                /\ \A i, j \in DOMAIN r :
                      i < j => AtLeastAsNear(config.distance, r[i].distance, r[j].distance)
                /\ relevancy = RelevancyUnset =>
                      /\ Len(r) = Min(n, count)
                      /\ \A i \in DOMAIN r : \A id \in (DOMAIN vectors) \ returned :
                            AtLeastAsNear(config.distance, r[i].distance,
                                          calculate(config.distance, q, vectors[id]))

\* Thresholds handed to set_relevancy that enable the filter.
Thresholds == {-2, 0, 1, 2}

\* The collection of the current state after set_relevancy(r).
WithRelevancy(r) == set_relevancy(self, r).self

\* A result at distance d passes the threshold r: d <= r for the Euclidean
\* distance (compared on the squares, d being kept squared), d >= r for
\* the dot product.
Passes(kernel, d, r) ==
    IF kernel = "euclidean" THEN r >= 0 /\ d <= r * r ELSE d >= r

\* The entries of a result list that pass the threshold r, in their order.
Kept(res, r) ==
    LET pass(x) == Passes(config.distance, x.distance, r)
    IN  SelectSeq(res, pass)

TrueSearchCount(r, q, n, sorted) ==
    Len(true_search(WithRelevancy(r), q, n, sorted).res.value)

SearchCount(r, q, n) ==
    LET found == search(WithRelevancy(r), q, n).res
    IN  IF found.kind = "ok" THEN Len(found.value) ELSE -1

\* r1 <= r2 never gives more results at the stricter of the two: at r1
\* for the Euclidean kernel, at r2 for the dot kernel.
MonotoneOver(values) ==
    \A q \in SizedQueries, n \in 0 .. MaxN :
        \A r1, r2 \in values :
            r1 <= r2 =>
               /\ \A sorted \in sort_outcomes(self, q) :
                     IF config.distance = "euclidean"
                     THEN TrueSearchCount(r1, q, n, sorted) <= TrueSearchCount(r2, q, n, sorted)
                     ELSE TrueSearchCount(r2, q, n, sorted) <= TrueSearchCount(r1, q, n, sorted)
               /\ IF config.distance = "euclidean"
                  THEN SearchCount(r1, q, n) <= SearchCount(r2, q, n)
                  ELSE SearchCount(r2, q, n) <= SearchCount(r1, q, n)

\* C18 as stated: the filter is monotone over every pair of values handed
\* to set_relevancy, the value -1.0 among them.
C18_MonotoneEveryValue == MonotoneOver(Thresholds \cup {RelevancyUnset})

\* C18 amended: the filter is monotone over every pair of values that
\* enable it (any value but -1.0, which switches the filter off).
C18_MonotoneEnabledValues == MonotoneOver(Thresholds)

\* Under the Euclidean kernel, lowering the threshold makes true_search
\* and search return fewer results than before, and no results at all at
\* a third, still lower threshold.
C18_Witness ==
    /\ config.distance = "euclidean"
    /\ \E q \in SizedQueries, r0, r1, r2 \in Thresholds :
          /\ r0 < r1 /\ r1 < r2
          /\ \E sorted \in sort_outcomes(self, q) :
                /\ TrueSearchCount(r0, q, MaxN, sorted) = 0
                /\ 0 < TrueSearchCount(r1, q, MaxN, sorted)
                /\ TrueSearchCount(r1, q, MaxN, sorted) < TrueSearchCount(r2, q, MaxN, sorted)
          /\ SearchCount(r0, q, MaxN) = 0
          /\ 0 < SearchCount(r1, q, MaxN)
          /\ SearchCount(r1, q, MaxN) < SearchCount(r2, q, MaxN)

\* Sequences of 0 .. n records, of any payload.
NewRecordSeqs(n) == UNION {[1 .. k -> NewRecords] : k \in 0 .. n}

\* The position of the first record of rs that carries the vector v.
FirstWith(rs, v) ==
    CHOOSE i \in DOMAIN rs :
        rs[i].vector = v /\ \A j \in DOMAIN rs : rs[j].vector = v => i <= j

\* C19: a successful build holds one record per distinct vector of its
\* input, with the metadata of the first record carrying that vector, and
\* count is the number of distinct vectors; a successful insert adds 1 to
\* count and a successful insert_many of N records adds N, whether or not
\* a stored record has the same vector.
C19_BuildCoalesces ==
    /\ self = new(config) =>
          \A rs \in NewRecordSeqs(U32Max) : \A prio \in Perms(1 .. Max(Len(rs) - 1, 0)) :
              LET out == build(config, rs, prio)
                  distinct == {rs[i].vector : i \in DOMAIN rs}
                  held == list(out.self).value
              IN  out.res.kind = "ok" =>
                     /\ out.self.count = Cardinality(distinct)
                     /\ Cardinality(DOMAIN held) = Cardinality(distinct)
                     /\ \A v \in distinct :
                           \E id \in DOMAIN held : held[id] = rs[FirstWith(rs, v)]
    /\ \A r \in Records :
          LET out == insert(self, r)
          IN  out.res.kind = "ok" => out.self.count = count + 1
    /\ \A rs \in RecordSeqs(MaxBatch) :
          LET out == insert_many(self, rs)
          IN  out.res.kind = "ok" => out.self.count = count + Len(rs)

\* The records of rs all have the vector length of the first one.
ConsistentLength(rs) ==
    \A i \in DOMAIN rs : Len(rs[i].vector) = Len(rs[1].vector)

\* C20: for every list of records of one vector length that is below the
\* capacity limit, the empty list included, build(config, records) and
\* insert_many(records) on new(config) both return Ok, and the two
\* collections have the same slots, vectors, metadata, count and dimension.
C20_BuildEqualsInsertMany ==
    self = new(config) =>
        \A rs \in NewRecordSeqs(U32Max - 1) :
            ConsistentLength(rs) =>
                \A prio \in Perms(1 .. Max(Len(rs) - 1, 0)) :
                    LET built == build(config, rs, prio)
                        many == insert_many(new(config), rs)
                    IN  /\ built.res.kind = "ok"
                        /\ many.res.kind = "ok"
                        /\ built.self.slots = many.self.slots
                        /\ built.self.vectors = many.self.vectors
                        /\ built.self.data = many.self.data
                        /\ built.self.count = many.self.count
                        /\ built.self.dimension = many.self.dimension


(***************************************************************************)
(* search without live records                                             *)
(***************************************************************************)

\* Query vectors of every length the model has and one length more.
AnyQueries == Vectors \cup VectorsOfLen(2)

\* C22: search on a collection with no live records returns Ok with an
\* empty result list for every query vector, of the collection's dimension
\* or not, and every n; it reports no dimension error.
C22_SearchOnEmpty ==
    LiveSlots = {} =>
        \A q \in AnyQueries, n \in 0 .. MaxN : search(self, q, n).res = Ok(<<>>)

\* Every record has been deleted, the dimension is still set, and a query
\* of another length is among those asked.
C22_Witness ==
    /\ slots # <<>>
    /\ LiveSlots = {}
    /\ dimension = 1
    /\ \E q \in AnyQueries : Len(q) # dimension /\ search(self, q, 1).res = Ok(<<>>)

\* The error of search when the slot table has no valid id to start from.
unable_to_initiate_search == Message("Unable to initiate search.")

\* C23: search on a collection that has slot entries, all of them
\* tombstoned, returns the error unable_to_initiate_search.
C23_AllTombstonedIsError ==
    (slots # <<>> /\ LiveSlots = {}) =>
        \A q \in SizedQueries, n \in 0 .. MaxN :
            search(self, q, n).res = unable_to_initiate_search


(***************************************************************************)
(* insert and insert_many of one record                                    *)
(***************************************************************************)

\* The outcome of a call without the value it carries: "ok", "panic", or
\* the error with its fields and message.
Outcome(r) == IF r.kind = "ok" THEN "ok" ELSE r

\* C26: in every reachable state insert(r) and insert_many([r]) are
\* interchangeable: both succeed or both fail, with the same error when they
\* fail, and both leave the same collection.
C26_InsertInterchangeable ==
    \A r \in NewRecords :
        LET one == insert(self, r)
            many == insert_many(self, <<r>>)
        IN  /\ Outcome(one.res) = Outcome(many.res)
            /\ one.self = many.self


(***************************************************************************)
(* Config::new and the layer-sizing loop of build                          *)
(*                                                                         *)
(* sizing holds the arguments of Config::new, the config or error it       *)
(* returns, and the locals len and layers of the loop that build runs on   *)
(* records.len() with that config.  ml is a fraction <<num, den>>; the     *)
(* rounding of the f32 product is not represented.                         *)
(***************************************************************************)

\* The record counts that build is run on: 1 .. MaxRecords.
MaxRecords == 9

\* The pairs that the layers vector holds before its allocation fails.
MaxLayers == 6

\* The width of usize, scaled down.
UsizeBits == 4

UsizeMax == 2 ^ UsizeBits - 1

\* The variants of Distance.
Dot == "Distance::Dot"

Euclidean == "Distance::Euclidean"

Cosine == "Distance::Cosine"

unsupported_distance == Message("Distance function not supported.")

\* An alias that the parser does not have.
distance_from_alias(s) ==
    CASE s = "dot" -> Ok(Dot)
      [] s \in {"euclidean", "l2"} -> Ok(Euclidean)
      [] s = "cosine" -> Ok(Cosine)
      [] OTHER -> unsupported_distance

distance_from(s) ==
    CASE s = "dot" -> Ok(Dot)
      [] s = "euclidean" -> Ok(Euclidean)
      [] s = "cosine" -> Ok(Cosine)
      [] OTHER -> unsupported_distance

\* The textual name of a kernel.
into_py(d) ==
    CASE d = Dot -> "dot"
      [] d = Euclidean -> "euclidean"
      [] d = Cosine -> "cosine"

Config_new(ef_construction, ef_search, ml, distance) ==
    LET d == distance_from(distance)
    IN  IF d.kind # "ok" THEN d
        ELSE Ok([ef_construction |-> ef_construction, ef_search |-> ef_search,
                 ml |-> ml, distance |-> d.value])

\* The strings handed to Config::new as distance.
DistanceInputs == {"dot", "euclidean", "cosine", "l2", "Dot", ""}

\* The values handed to Config::new as ml: Config::new takes every f32.
MlInputs == {<<-1, 2>>, <<0, 1>>, <<3, 10>>, <<1, 2>>, <<2, 3>>, <<1, 1>>, <<3, 2>>}

\* (len as f32 * ml) as usize: the cast truncates, takes a negative product
\* to 0 and saturates at usize::MAX.
next_len(length, ml) ==
    LET product == length * ml[1]
    IN  IF product <= 0 THEN 0 ELSE Min(product \div ml[2], UsizeMax)

InitSizing ==
    /\ config \in Configs
    /\ relevancy = RelevancyUnset
    /\ data = <<>>
    /\ vectors = <<>>
    /\ slots = <<>>
    /\ base_layer = <<>>
    /\ upper_layers = <<>>
    /\ count = 0
    /\ dimension = 0
    /\ sizing \in [pc : {"new"}, ml : MlInputs, distance : DistanceInputs,
                   records_len : 1 .. MaxRecords, config : {[kind |-> "unset"]},
                   len : {0}, layers : {<<>>}]
    /\ construction = NotStarted
    /\ kvs = NotStarted
    /\ indices = NotStarted
    /\ locks = NotStarted
    /\ calls = NotStarted
    /\ ix = NotStarted

\* Config::new; with a config, build starts its loop at len = records.len().
ConfigNew ==
    /\ sizing.pc = "new"
    /\ LET r == Config_new(DefaultEfConstruction, DefaultEfSearch,
                           sizing.ml, sizing.distance)
       IN  sizing' = IF r.kind = "ok"
                     THEN [sizing EXCEPT !.pc = "loop", !.config = r,
                                         !.len = sizing.records_len]
                     ELSE [sizing EXCEPT !.pc = "rejected", !.config = r]
    /\ UNCHANGED <<fields, construction, server, ix>>

\* One iteration that does not break: layers.push((len - next, len)) and
\* len = next.  With next > len the subtraction overflows: a build with
\* overflow checks panics, one without wraps around.  A push on a vector
\* that cannot grow any more aborts the process.
LayerPush ==
    /\ sizing.pc = "loop"
    /\ LET next == next_len(sizing.len, sizing.config.value.ml)
       IN  /\ next >= M
           /\ \/ /\ next > sizing.len
                 /\ sizing' = [sizing EXCEPT !.pc = "panic"]
              \/ /\ Len(sizing.layers) >= MaxLayers
                 /\ sizing' = [sizing EXCEPT !.pc = "aborted"]
              \/ /\ Len(sizing.layers) < MaxLayers
                 /\ sizing' = [sizing EXCEPT
                       !.layers = Append(@, <<(sizing.len - next) % (UsizeMax + 1),
                                              sizing.len>>),
                       !.len = next]
    /\ UNCHANGED <<fields, construction, server, ix>>

\* The iteration that breaks, and the push of the top layer after the loop.
LayerBreak ==
    /\ sizing.pc = "loop"
    /\ next_len(sizing.len, sizing.config.value.ml) < M
    /\ sizing' = [sizing EXCEPT !.pc = "done",
                                !.layers = Append(@, <<sizing.len, sizing.len>>)]
    /\ UNCHANGED <<fields, construction, server, ix>>

NextSizing ==
    \/ ConfigNew
    \/ LayerPush
    \/ LayerBreak

SpecSizing == InitSizing /\ [][NextSizing]_vars

\* The loop runs on one thread without waiting for anything: a step that
\* is possible is taken.
SpecSizingFair == SpecSizing /\ WF_vars(NextSizing)

\* The size of layer k by the recurrence L0 = N, L(k+1) = floor(L(k) * ml).
RECURSIVE LayerSize(_, _, _)
LayerSize(n, ml, k) ==
    IF k = 0 THEN n ELSE (LayerSize(n, ml, k - 1) * ml[1]) \div ml[2]

\* The last layer before the first size below M.
TopLayerOf(n, ml) ==
    CHOOSE k \in 0 .. n :
        /\ \A j \in 1 .. k : LayerSize(n, ml, j) >= M
        /\ LayerSize(n, ml, k + 1) < M

\* The loop has finished under an ml in (0, 1).
SizedWithFraction ==
    /\ sizing.pc = "done"
    /\ 0 < sizing.ml[1]
    /\ sizing.ml[1] < sizing.ml[2]

\* C21: for N records and ml in (0, 1) the layer sizes are L0 = N,
\* L(k+1) = floor(L(k) * ml) up to the last size not below M, with one upper
\* layer per size above the base; the insertion ranges hold every id of
\* 1 .. N-1 exactly once, in the range of the highest layer L with
\* id < L_size, and no range holds id 0 or an id from N on.
C21_LayerRanges ==
    SizedWithFraction =>
        LET n == sizing.records_len
            ml == sizing.ml
            layers == Reverse(sizing.layers)
            ranges == build_ranges(layers)
            top == TopLayerOf(n, ml)
            Holding(v) == {i \in DOMAIN ranges :
                              ranges[i].start <= v /\ v < ranges[i].end}
        IN  /\ sizing.layers = build_layers(n, ml, <<>>)
            /\ Len(layers) = top + 1
            /\ \A i \in DOMAIN layers : layers[i][2] = LayerSize(n, ml, Len(layers) - i)
            /\ \A v \in 1 .. (n - 1) :
                   /\ Cardinality(Holding(v)) = 1
                   /\ \A i \in Holding(v) :
                          /\ v < LayerSize(n, ml, ranges[i].layer)
                          /\ \A l \in 0 .. top :
                                 v < LayerSize(n, ml, l) => l <= ranges[i].layer
            /\ Holding(0) = {}
            /\ \A v \in n .. (n + 1) : Holding(v) = {}

\* Three upper layers, the top one with an empty range.
C21_Witness ==
    /\ SizedWithFraction
    /\ Len(sizing.layers) = 4
    /\ sizing.records_len = 8
    /\ build_ranges(Reverse(sizing.layers))[1].start =
           build_ranges(Reverse(sizing.layers))[1].end

\* C24: Distance::from accepts exactly "dot", "euclidean" and "cosine" and
\* rejects every other string with unsupported_distance; the textual name of
\* the kernel of an accepted string is that string.
C24_DistanceFromRoundTrip ==
    /\ \A s \in DistanceInputs :
           LET d == distance_from(s)
           IN  /\ d.kind = "ok" <=> s \in {"dot", "euclidean", "cosine"}
               /\ d.kind # "ok" => d = unsupported_distance
               /\ d.kind = "ok" => into_py(d.value) = s
    /\ sizing.pc # "new" =>
           /\ sizing.config.kind = "ok" <=>
                  sizing.distance \in {"dot", "euclidean", "cosine"}
           /\ sizing.config.kind # "ok" => sizing.config = unsupported_distance
           /\ sizing.config.kind = "ok" =>
                  into_py(sizing.config.value.distance) = sizing.distance

\* Config::new has made a config from "cosine".
C24_Witness ==
    /\ sizing.pc = "loop"
    /\ sizing.distance = "cosine"
    /\ sizing.config.value.distance = Cosine
    /\ into_py(sizing.config.value.distance) = "cosine"

\* Every size the loop has computed is strictly below the one before it.
StrictlySmaller ==
    /\ \A i \in 1 .. (Len(sizing.layers) - 1) :
           sizing.layers[i + 1][2] < sizing.layers[i][2]
    /\ \A i \in DOMAIN sizing.layers :
           sizing.layers[i][1] <= sizing.layers[i][2]
    /\ (sizing.pc = "loop" /\ sizing.layers # <<>>) =>
           sizing.len < sizing.layers[Len(sizing.layers)][2]

\* C27: for every record count N >= 1 and every ml that Config::new
\* accepts, the layer-sizing loop terminates and each computed layer size
\* is strictly smaller than the size of the layer below it.
C27_SizingTerminates ==
    /\ [](sizing.pc \in {"loop", "done"} => StrictlySmaller)
    /\ (sizing.pc = "loop") ~> (sizing.pc = "done")


(***************************************************************************)
(* The construction loop of build                                          *)
(*                                                                         *)
(* construction holds the locals of the loop over the layer ranges: the    *)
(* ranges still to run (the first one is the current one), the ids of the  *)
(* current range that the parallel for_each has not started yet and those  *)
(* whose insert is running, the base layer behind its locks, and           *)
(* upper_layers.  IndexConstruction::insert is not under src/: an insert   *)
(* is a start, one write that links its id with a node already entered,    *)
(* and a return, and inserts of one range interleave freely.  The record   *)
(* count here is above the scaled u32::MAX of the collection, so the       *)
(* vacant entry of a node (INVALID there) is written Vacant.               *)
(***************************************************************************)

\* records.len() of the build.
BuildRecords == 6

\* The threads of the pool that runs the parallel loops.
PoolThreads == 2

Vacant == -1

\* ml of the build.
BuildMl == <<1, 2>>

BuildRanges == build_ranges(Reverse(build_layers(BuildRecords, BuildMl, <<>>)))

RangeIds(range) == {i \in range.start .. (range.end - 1) : TRUE}

\* The entry points an insert can reach: id 0 and every id whose insert has
\* started, in this range or in one before it.
Entered ==
    {0} \cup {i \in 1 .. (BuildRecords - 1) :
                /\ \A k \in DOMAIN construction.ranges :
                       i \notin RangeIds(construction.ranges[k])
                   \/ (construction.ranges # <<>>
                       /\ i \in RangeIds(Head(construction.ranges))
                       /\ i \notin construction.pending)}

\* id put in front of the node, the last entry dropped.
node_link(node, id) == <<id>> \o SubSeq(node, 1, Len(node) - 1)

InitConstruction ==
    /\ config \in Configs
    /\ relevancy = RelevancyUnset
    /\ data = <<>>
    /\ vectors = <<>>
    /\ slots = <<>>
    /\ base_layer = <<>>
    /\ upper_layers = <<>>
    /\ count = 0
    /\ dimension = 0
    /\ sizing = NotStarted
    /\ construction =
           [ranges |-> BuildRanges,
            pending |-> RangeIds(Head(BuildRanges)),
            running |-> {},
            base |-> [i \in 1 .. BuildRecords |-> [k \in 1 .. (2 * M) |-> Vacant]],
            upper |-> [l \in 1 .. (Len(BuildRanges) - 1) |-> <<>>]]
    /\ kvs = NotStarted
    /\ indices = NotStarted
    /\ locks = NotStarted
    /\ calls = NotStarted
    /\ ix = NotStarted

\* A thread of the pool takes an id of the current range.
StartInsert ==
    /\ construction.ranges # <<>>
    /\ Cardinality(construction.running) < PoolThreads
    /\ \E id \in construction.pending :
           construction' = [construction EXCEPT !.pending = @ \ {id},
                                                !.running = @ \cup {id}]
    /\ UNCHANGED <<fields, sizing, server, ix>>

\* A running insert links its id with an entered node, under the write
\* locks of the two nodes, and returns.
FinishInsert ==
    /\ \E id \in construction.running : \E t \in Entered \ {id} :
           construction' = [construction EXCEPT
               !.running = @ \ {id},
               !.base = [@ EXCEPT ![id + 1] = node_link(@, t),
                                  ![t + 1] = node_link(@, id)]]
    /\ UNCHANGED <<fields, sizing, server, ix>>

\* for_each has returned; the first `end` base nodes are copied into the
\* upper layer of the range, unless the range is that of the base layer.
SnapshotWhileRunning ==
    /\ construction.ranges # <<>>
    /\ construction.pending = {}
    /\ LET r == Head(construction.ranges)
           rest == Tail(construction.ranges)
       IN  construction' = [construction EXCEPT
               !.ranges = rest,
               !.pending = IF rest = <<>> THEN {} ELSE RangeIds(Head(rest)),
               !.upper = IF r.layer # 0
                         THEN [@ EXCEPT ![r.layer] =
                                  [i \in 1 .. r.end |-> from_zero(construction.base[i])]]
                         ELSE @]
    /\ UNCHANGED <<fields, sizing, server, ix>>

Snapshot ==
    /\ construction.ranges # <<>>
    /\ construction.pending = {}
    /\ construction.running = {}
    /\ LET r == Head(construction.ranges)
           rest == Tail(construction.ranges)
       IN  construction' = [construction EXCEPT
               !.ranges = rest,
               !.pending = IF rest = <<>> THEN {} ELSE RangeIds(Head(rest)),
               !.upper = IF r.layer # 0
                         THEN [@ EXCEPT ![r.layer] =
                                  [i \in 1 .. r.end |-> from_zero(construction.base[i])]]
                         ELSE @]
    /\ UNCHANGED <<fields, sizing, server, ix>>

NextConstruction ==
    \/ StartInsert
    \/ FinishInsert
    \/ Snapshot

SpecConstruction == InitConstruction /\ [][NextConstruction]_vars

\* The layer of the current range; -1 after the last one.
CurrentLayer(c) == IF c.ranges = <<>> THEN -1 ELSE Head(c.ranges).layer

\* C25: build processes the layers from the top to the base.  Every insert
\* of a layer's range has returned when the layer's snapshot is taken; the
\* snapshot of layer L is the first `end` base nodes (end = upper bound of
\* L's range) as they are at that moment; the inserts of a lower layer
\* start after the snapshots of the layers above and change no snapshot
\* that has been taken.
C25_SnapshotOrder ==
    [][LET c == construction
           d == construction'
       IN  /\ CurrentLayer(d) <= CurrentLayer(c)
           /\ \A l \in DOMAIN c.upper :
                  /\ c.upper[l] # <<>> => d.upper[l] = c.upper[l]
                  /\ (c.upper[l] = <<>> /\ d.upper[l] # <<>>) =>
                         /\ CurrentLayer(c) = l
                         /\ c.pending = {} /\ c.running = {}
                         /\ d.base = c.base
                         /\ d.upper[l] =
                                [i \in 1 .. Head(c.ranges).end |-> from_zero(c.base[i])]
           /\ (d.running # c.running /\ d.running # {}) =>
                  \A l \in DOMAIN d.upper : l > CurrentLayer(d) => d.upper[l] # <<>>
      ]_vars

\* An insert of the base layer's range has changed a base node that the
\* snapshot of layer 1 holds, while another insert of that range runs.
C25_Witness ==
    /\ construction.ranges # <<>>
    /\ CurrentLayer(construction) = 0
    /\ construction.running # {}
    /\ construction.upper[1] # <<>>
    /\ construction.upper[2] # <<>>
    /\ \E i \in DOMAIN construction.upper[1] :
           from_zero(construction.base[i]) # construction.upper[1][i]


(***************************************************************************)
(* The key-value server (src/src/db/server.rs)                             *)
(*                                                                         *)
(* kvs and indices are what the two mutexes of Server guard; locks gives   *)
(* the thread that holds each mutex, 0 when it is free.  calls gives, per  *)
(* client thread, the call it is in: the operation, its arguments, the     *)
(* locks it has taken so far, and the calls it has left to make.  A call    *)
(* takes its locks one by one, then runs its body and returns, dropping    *)
(* its guards.  What a call returns is not kept: it is what the operators *)
(* get, search_answer, ... give in the state the body runs in.  The HNSW   *)
(* library is not under src/: an index is the points it was built from,    *)
(* and its search lists them nearest first.                                *)
(***************************************************************************)

\* The client threads: 1 .. ServerThreads.
ServerThreads == 2

\* The calls that one thread makes.
MaxCalls == 2

\* config.dimension of the server.
ServerDimension == 1

Threads == 1 .. ServerThreads

Keys == {"a"}

\* Values of the configured dimension, and one that is not.
ValidValues == {[embedding |-> <<0>>, data |-> 0]}

Values == ValidValues \cup {[embedding |-> <<>>, data |-> 2]}

\* The query embeddings of search.
Embeddings == {<<0>>, <<1>>, <<>>}

Counts == 0 .. 2

Err(text) == [kind |-> "err", text |-> text]

\* The mutexes a call locks, in the order it locks them.
set_locks_both == <<"kvs", "index">>

get_locks == <<"kvs">>

set_locks == <<"kvs">>

delete_locks == <<"kvs">>

build_locks == <<"index", "kvs">>

search_locks == <<"index">>

LocksOf(op) ==
    CASE op = "get" -> get_locks
      [] op = "set" -> set_locks
      [] op = "delete" -> delete_locks
      [] op = "build" -> build_locks
      [] op = "search" -> search_locks

\* Builder::build(values, keys): the index over the points given.
hnsw_build(store) == store

\* Hnsw search: the keys of the index, nearest to the point first; keys at
\* the same distance in an order that the index fixes.
hnsw_search(built, embedding) ==
    IF DOMAIN built = {} THEN <<>>
    ELSE CHOOSE p \in Perms(DOMAIN built) :
            \A i, j \in DOMAIN p : i < j =>
                LET di == euclidean(built[p[i]].embedding, embedding)
                    dj == euclidean(built[p[j]].embedding, embedding)
                IN  di <= dj

\* The server as a call sees it.
Server == [kvs |-> kvs, index |-> indices]

\* An answer made from the key-value store as it is now.
search_answer_live(s, embedding, n) ==
    LET found == hnsw_search(s.kvs, embedding)
    IN  Ok(Take([i \in DOMAIN found |-> s.kvs[found[i]].data], n))

\* The body of search: the data of the points of the first index of the
\* list, nearest first, cut to n; an error when the list is empty.
search_answer(s, embedding, n) ==
    IF s.index = <<>> THEN Err("The index is not built yet.")
    ELSE LET found == hnsw_search(s.index[1], embedding)
         IN  Ok(Take([i \in DOMAIN found |-> s.index[1][found[i]].data], n))

\* The checks a call makes before it locks anything: an error, or "pass".
Precheck(op, arg) ==
    IF op = "set" /\ Len(arg.value.embedding) # ServerDimension
    THEN Err("The embedding dimension is invalid.")
    ELSE IF op = "search" /\ Len(arg.embedding) # ServerDimension
    THEN Err("The embedding dimension is invalid.")
    ELSE [kind |-> "pass"]

\* What search(embedding, n) returns on server s.
server_search(s, embedding, n) ==
    LET check == Precheck("search", [embedding |-> embedding])
    IN  IF check.kind # "pass" THEN check ELSE search_answer(s, embedding, n)

\* The arguments of a call that its checks and its writes depend on: the
\* key and the value of set, the key of delete, the embedding of search.
Arguments == [key : Keys, value : Values, embedding : Embeddings]

\* Of these a call in progress keeps what its body writes: key and value.
Written(arg) == [key |-> arg.key, value |-> arg.value]

NoArgument == [key |-> "a", value |-> CHOOSE v \in ValidValues : TRUE,
               embedding |-> <<0>>]

ArgumentsOf(op) ==
    CASE op = "get" -> {NoArgument}
      [] op = "set" -> {a \in Arguments :
                          a = [NoArgument EXCEPT !.key = a.key, !.value = a.value]}
      [] op = "delete" -> {a \in Arguments : a = [NoArgument EXCEPT !.key = a.key]}
      [] op = "build" -> {NoArgument}
      [] op = "search" -> {a \in Arguments :
                             a = [NoArgument EXCEPT !.embedding = a.embedding]}

Operations == {"get", "set", "delete", "build", "search"}

\* Server::new, and no call made yet.
InitServer ==
    /\ config \in Configs
    /\ relevancy = RelevancyUnset
    /\ data = <<>>
    /\ vectors = <<>>
    /\ slots = <<>>
    /\ base_layer = <<>>
    /\ upper_layers = <<>>
    /\ count = 0
    /\ dimension = 0
    /\ sizing = NotStarted
    /\ construction = NotStarted
    /\ kvs = <<>>
    /\ indices = <<>>
    /\ locks = [m \in {"kvs", "index"} |-> 0]
    /\ calls = [t \in Threads |->
                   [op |-> "none", pc |-> "idle", arg |-> Written(NoArgument),
                    taken |-> 0, left |-> MaxCalls]]
    /\ ix = NotStarted

\* A thread enters a call: the checks before the first lock either return
\* an error at once or let the call go on to its locks.
Call(t) ==
    /\ calls[t].pc = "idle"
    /\ calls[t].left > 0
    /\ \E op \in Operations : \E arg \in ArgumentsOf(op) :
           LET check == Precheck(op, arg)
           IN  calls' = [calls EXCEPT ![t] =
                   IF check.kind = "pass"
                   THEN [op |-> op, pc |-> "lock", arg |-> Written(arg), taken |-> 0,
                         left |-> @.left - 1]
                   ELSE [@ EXCEPT !.left = @ - 1]]
    /\ UNCHANGED <<fields, sizing, construction, kvs, indices, locks, ix>>

\* The thread takes the next mutex of its call, which is free.  build
\* clears the index list as soon as it has the index lock.
Lock(t) ==
    /\ calls[t].pc = "lock"
    /\ LET order == LocksOf(calls[t].op)
           m == order[calls[t].taken + 1]
       IN  /\ locks[m] = 0
           /\ locks' = [locks EXCEPT ![m] = t]
           /\ calls' = [calls EXCEPT ![t].taken = @ + 1,
                                     ![t].pc = IF calls[t].taken + 1 = Len(order)
                                               THEN "body" ELSE "lock"]
           /\ indices' = IF calls[t].op = "build" /\ m = "index" THEN <<>> ELSE indices
    /\ UNCHANGED <<fields, sizing, construction, kvs, ix>>

\* The body of the call under its locks, and the return, which drops them.
Return(t) ==
    /\ calls[t].pc = "body"
    /\ LET op == calls[t].op
           arg == calls[t].arg
       IN  /\ kvs' = CASE op = "set" -> MapInsert(kvs, arg.key, arg.value)
                       [] op = "delete" -> MapRemove(kvs, arg.key)
                       [] OTHER -> kvs
           /\ indices' = IF op = "build" THEN Append(indices, hnsw_build(kvs))
                         ELSE indices
           /\ calls' = [calls EXCEPT ![t].pc = "idle", ![t].op = "none",
                                     ![t].arg = Written(NoArgument),
                                     ![t].taken = 0]
           /\ locks' = [m \in DOMAIN locks |-> IF locks[m] = t THEN 0 ELSE locks[m]]
    /\ UNCHANGED <<fields, sizing, construction, ix>>

NextServer ==
    \/ \E t \in Threads : Call(t)
    \/ \E t \in Threads : Lock(t)
    \/ \E t \in Threads : Return(t)

SpecServer == InitServer /\ [][NextServer]_vars

\* A thread that can take its lock or run its body is scheduled in the end;
\* whether a thread makes another call is up to the client.
SpecServerFair ==
    SpecServer /\ \A t \in Threads : WF_vars(Lock(t)) /\ WF_vars(Return(t))


\* The mutexes that thread t holds.
Holds(t) == {m \in DOMAIN locks : locks[m] = t}

\* The mutex that thread t is waiting for.
WaitsFor(t) == LocksOf(calls[t].op)[calls[t].taken + 1]

\* Only build holds both mutexes, and it takes the index lock first; every
\* other call holds at most one, and none while it waits.
LockDiscipline ==
    \A t \in Threads :
        /\ Cardinality(Holds(t)) = 2 => calls[t].op = "build"
        /\ (calls[t].pc = "lock" /\ Holds(t) # {}) =>
               /\ calls[t].op = "build"
               /\ Holds(t) = {"index"}
               /\ WaitsFor(t) = "kvs"
        /\ calls[t].pc = "idle" => Holds(t) = {}

\* While a call is in progress, some call can take its lock or return.
NoDeadlock ==
    (\E t \in Threads : calls[t].pc # "idle") =>
        \E t \in Threads :
            \/ calls[t].pc = "body"
            \/ calls[t].pc = "lock" /\ locks[WaitsFor(t)] = 0

\* C28: every interleaving of concurrent get, set, delete, build and search
\* calls is free of deadlock and every call returns: build is the only call
\* that holds both locks, it takes the index lock before the key-value
\* lock, and every other call holds at most one lock.
C28_CallsReturn ==
    /\ [](LockDiscipline /\ NoDeadlock)
    /\ \A t \in Threads : (calls[t].pc # "idle") ~> (calls[t].pc = "idle")

\* build holds the index lock and waits for the key-value lock, which a
\* set holds; nothing is deadlocked, and both return.
C28_Witness ==
    \E t, u \in Threads :
        /\ calls[t].op = "build" /\ calls[t].pc = "lock" /\ Holds(t) = {"index"}
        /\ calls[u].op = "set" /\ calls[u].pc = "body" /\ Holds(u) = {"kvs"}


\* The embeddings of the configured dimension.
SizedEmbeddings == {e \in Embeddings : Len(e) = ServerDimension}

\* No build has completed and none is in progress: search with an
\* embedding of es returns "The index is not built yet.".
NotBuiltYet(es) ==
    (indices = <<>> /\ locks["index"] = 0) =>
        \A e \in es, n \in Counts :
            server_search(Server, e, n) = Err("The index is not built yet.")

\* A step of the server: the index list changes only under the index lock
\* of a build, whose return leaves exactly one index, built from the
\* key-value store as it is at that moment; a step that changes the store
\* changes no answer of search.
AnswersFromLastBuild ==
    LET after == [kvs |-> kvs', index |-> indices']
    IN  /\ indices' # indices =>
               \E t \in Threads :
                   /\ calls[t].op = "build"
                   /\ \/ /\ locks["index"] = 0
                         /\ locks'["index"] = t
                         /\ indices' = <<>>
                      \/ /\ locks["index"] = t
                         /\ locks'["index"] = 0
                         /\ indices' = <<hnsw_build(kvs)>>
                         /\ kvs' = kvs
        /\ kvs' # kvs =>
               \A e \in Embeddings, n \in Counts :
                   server_search(after, e, n) = server_search(Server, e, n)

\* C29 as stated: search answers only from the index of the most recent
\* completed build: before any build it returns "The index is not built
\* yet." for every embedding; after a build the list holds exactly one
\* index, built from the key-value contents at that build; set and delete
\* change no search result until the next build.
C29_EveryEmbedding ==
    /\ [](NotBuiltYet(Embeddings))
    /\ [](locks["index"] = 0 => Len(indices) <= 1)
    /\ [][AnswersFromLastBuild]_vars

\* C29, amended: the same, with the error before any build returned for
\* every embedding of the configured dimension.
C29_SizedEmbeddings ==
    /\ [](NotBuiltYet(SizedEmbeddings))
    /\ [](locks["index"] = 0 => Len(indices) <= 1)
    /\ [][AnswersFromLastBuild]_vars

\* A build has completed, the key has been deleted since, and search still
\* answers with the point of the build.
C29_Witness ==
    /\ locks["index"] = 0
    /\ Len(indices) = 1
    /\ DOMAIN indices[1] # {}
    /\ kvs = <<>>
    /\ \E e \in SizedEmbeddings :
           /\ server_search(Server, e, 1).kind = "ok"
           /\ Len(server_search(Server, e, 1).value) = 1


(***************************************************************************)
(* The tree index (src/src/ix/index.rs)                                    *)
(*                                                                         *)
(* ix holds the trees and the vectors of an Index and the query running   *)
(* on it: its arguments, the candidate set shared by the trees, the number *)
(* of trees walked, and the result.  Tree, Branch and the hyperplane are   *)
(* not under src/: a tree is a leaf with its keys or a branch with a       *)
(* hyperplane and two subtrees that share the keys between them, none      *)
(* empty, and a hyperplane is the set of query vectors above it.           *)
(***************************************************************************)

\* The largest n asked of a query; the smallest is -1 (n is an i32).
MaxQueryN == 3

IxKeys == {"p", "q", "r"}

\* The vectors of the keys; build keeps one key per vector.
IxVectors == [k \in IxKeys |-> CASE k = "p" -> <<0>> [] k = "q" -> <<1>> [] k = "r" -> <<2>>]

QueryVectors == {<<0>>, <<1>>}

Hyperplanes == {[above |-> {v}] : v \in QueryVectors}

point_is_above(hyperplane, vector) == vector \in hyperplane.above

\* config.num_trees.
NumTreesValues == {1, 2}

\* The trees that hold exactly the keys of S.
RECURSIVE TreesOver(_)
TreesOver(S) ==
    {[kind |-> "Leaf", leaf |-> p] : p \in Perms(S)}
    \cup UNION {UNION {{[kind |-> "Branch", hyperplane |-> h,
                         left_tree |-> l, right_tree |-> r] :
                            l \in TreesOver(A), r \in TreesOver(S \ A)} :
                       A \in (SUBSET S) \ {{}, S}} :
                   h \in Hyperplanes}

\* The keys stored under a tree.
RECURSIVE KeysUnder(_)
KeysUnder(tree) ==
    IF tree.kind = "Leaf" THEN {tree.leaf[i] : i \in DOMAIN tree.leaf}
    ELSE KeysUnder(tree.left_tree) \cup KeysUnder(tree.right_tree)

\* min(n as usize, leaf.len()): the cast takes a negative n to a number
\* above every length.
candidates_from_leaf(leaf, n) ==
    LET num_candidates == IF n < 0 THEN Len(leaf) ELSE Min(n, Len(leaf))
    IN  [num |-> num_candidates, added |-> {leaf[i] : i \in 1 .. num_candidates}]

\* The backup side asked for n again, not for the remainder.
RECURSIVE get_candidates_backup_n(_, _, _)
get_candidates_backup_n(tree, vector, n) ==
    IF tree.kind = "Leaf" THEN candidates_from_leaf(tree.leaf, n)
    ELSE LET above == point_is_above(tree.hyperplane, vector)
             main_tree == IF above THEN tree.right_tree ELSE tree.left_tree
             backup_tree == IF above THEN tree.left_tree ELSE tree.right_tree
             main == get_candidates_backup_n(main_tree, vector, n)
         IN  IF main.num >= n THEN main
             ELSE LET backup == get_candidates_backup_n(backup_tree, vector, n)
                  IN  [num |-> main.num + backup.num,
                       added |-> main.added \cup backup.added]

\* get_candidates with candidates_from_branch: the number it returns and the
\* keys it inserts into the candidate set.
RECURSIVE get_candidates(_, _, _)
get_candidates(tree, vector, n) ==
    IF tree.kind = "Leaf" THEN candidates_from_leaf(tree.leaf, n)
    ELSE LET above == point_is_above(tree.hyperplane, vector)
             main_tree == IF above THEN tree.right_tree ELSE tree.left_tree
             backup_tree == IF above THEN tree.left_tree ELSE tree.right_tree
             main == get_candidates(main_tree, vector, n)
         IN  IF main.num >= n THEN main
             ELSE LET backup == get_candidates(backup_tree, vector, n - main.num)
                  IN  [num |-> main.num + backup.num,
                       added |-> main.added \cup backup.added]

\* The orders in which sorted_by can leave the candidates: by distance,
\* candidates at the same distance in the order the set yields them.
SortedCandidates(cands, vector) ==
    {p \in Perms(cands) :
        \A i, j \in DOMAIN p : i < j =>
            euclidean(IxVectors[p[i]], vector) <= euclidean(IxVectors[p[j]], vector)}

\* take(n as usize).
take_usize(s, n) == IF n < 0 THEN s ELSE Take(s, n)

\* Index::build, and no query made yet.
InitIx ==
    /\ config \in Configs
    /\ relevancy = RelevancyUnset
    /\ data = <<>>
    /\ vectors = <<>>
    /\ slots = <<>>
    /\ base_layer = <<>>
    /\ upper_layers = <<>>
    /\ count = 0
    /\ dimension = 0
    /\ sizing = NotStarted
    /\ construction = NotStarted
    /\ kvs = NotStarted
    /\ indices = NotStarted
    /\ locks = NotStarted
    /\ calls = NotStarted
    /\ \E num_trees \in NumTreesValues :
           ix \in [trees : [1 .. num_trees -> TreesOver(IxKeys)], pc : {"idle"},
                   vector : {<<0>>}, n : {0}, candidates : {{}}, walked : {0},
                   result : {<<>>}]

\* query(vector, n) starts with an empty candidate set.
QueryStart ==
    /\ ix.pc = "idle"
    /\ \E vector \in QueryVectors, n \in -1 .. MaxQueryN :
           ix' = [ix EXCEPT !.pc = "trees", !.vector = vector, !.n = n,
                            !.candidates = {}, !.walked = 0, !.result = <<>>]
    /\ UNCHANGED <<fields, sizing, construction, server>>

\* The next tree puts its candidates into the set.
QueryTree ==
    /\ ix.pc = "trees"
    /\ ix.walked < Len(ix.trees)
    /\ ix' = [ix EXCEPT
           !.walked = @ + 1,
           !.candidates = @ \cup get_candidates(ix.trees[ix.walked + 1],
                                                ix.vector, ix.n).added]
    /\ UNCHANGED <<fields, sizing, construction, server>>

\* The candidates sorted by their distance to the vector, cut to n.
QueryReturn ==
    /\ ix.pc = "trees"
    /\ ix.walked = Len(ix.trees)
    /\ \E sorted \in SortedCandidates(ix.candidates, ix.vector) :
           ix' = [ix EXCEPT
               !.pc = "idle",
               !.result = [i \in DOMAIN take_usize(sorted, ix.n) |->
                              [key |-> sorted[i],
                               distance |-> euclidean(IxVectors[sorted[i]], ix.vector)]]]
    /\ UNCHANGED <<fields, sizing, construction, server>>

NextIx ==
    \/ QueryStart
    \/ QueryTree
    \/ QueryReturn

SpecIx == InitIx /\ [][NextIx]_vars


\* A tree and the trees below it.
RECURSIVE Subtrees(_)
Subtrees(tree) ==
    IF tree.kind = "Leaf" THEN {tree}
    ELSE {tree} \cup Subtrees(tree.left_tree) \cup Subtrees(tree.right_tree)

\* The side of a branch that the vector lies on, and the other one.
MainSide(tree, vector) ==
    IF point_is_above(tree.hyperplane, vector) THEN tree.right_tree ELSE tree.left_tree

BackupSide(tree, vector) ==
    IF point_is_above(tree.hyperplane, vector) THEN tree.left_tree ELSE tree.right_tree

\* get_candidates(tree, vector, n) returns min(n, keys under the tree); at a
\* branch its candidates are of the vector's side alone when that side has
\* n keys or more, and otherwise all keys of that side and, of the other
\* side, as many as are missing from n.
CandidatesAsClaimed(tree, vector, n) ==
    LET got == get_candidates(tree, vector, n)
    IN  /\ got.num = Min(n, Cardinality(KeysUnder(tree)))
        /\ Cardinality(got.added) = got.num
        /\ tree.kind = "Branch" =>
               LET main == KeysUnder(MainSide(tree, vector))
                   backup == KeysUnder(BackupSide(tree, vector))
               IN  /\ Cardinality(main) >= n => got.added \subseteq main
                   /\ Cardinality(main) < n =>
                          /\ main \subseteq got.added
                          /\ Cardinality(got.added \cap backup) =
                                 Min(n - Cardinality(main), Cardinality(backup))

\* A query has returned.
QueryReturned == ix.pc = "idle" /\ ix.walked = Len(ix.trees)

\* The claims of C30 on the query at hand.
TreeIndexClaims ==
    /\ ix.pc = "trees" =>
           \A i \in DOMAIN ix.trees : \A tree \in Subtrees(ix.trees[i]) :
               CandidatesAsClaimed(tree, ix.vector, ix.n)
    /\ QueryReturned =>
           /\ Len(ix.result) <= ix.n
           /\ \A i, j \in DOMAIN ix.result :
                  /\ i # j => ix.result[i].key # ix.result[j].key
                  /\ i < j => ix.result[i].distance <= ix.result[j].distance

\* C30 as stated, for every n of the argument's type: get_candidates(tree,
\* v, n) returns min(n, number of keys under tree), going first into the
\* side of each hyperplane that v lies on and into the other side only when
\* the first gave fewer than n, and then for the remainder; query(v, n)
\* returns at most n results, of distinct keys, by non-decreasing distance.
C30_EveryN == TreeIndexClaims

\* C30, amended: the same for every n >= 0.
C30_NaturalN == ix.n >= 0 => TreeIndexClaims

\* A query for two results on two trees has returned two; the candidates
\* were more, and in the first tree the vector's side holds one key only.
C30_Witness ==
    /\ QueryReturned
    /\ Len(ix.trees) = 2
    /\ ix.n = 2
    /\ Len(ix.result) = 2
    /\ Cardinality(ix.candidates) > 2
    /\ ix.trees[1].kind = "Branch"
    /\ Cardinality(KeysUnder(MainSide(ix.trees[1], ix.vector))) = 1

====
